---- MODULE Spec2Model ----
(***************************************************************************)
(* Model of the multi-protocol naming-service dispatcher, class Resolution *)
(* of src/src/Resolution.ts.                                               *)
(*                                                                         *)
(* The dispatcher's state is its five readonly fields.  A public operation *)
(* is one action up to its first await; the continuation after the await   *)
(* is a second action that consumes the backend's answer.  The backends    *)
(* (./ens, ./zns, ./cns, ./unstoppableAPI) are collaborators: what they    *)
(* answer is an input of the continuation, which suffixes they accept is   *)
(* fixed when the model starts.                                            *)
(***************************************************************************)
EXTENDS Naturals, Sequences, FiniteSets

VARIABLES
    arg,          \* the constructor's argument, until it is consumed
    constructed,  \* the constructor has run
    blockchain,   \* this.blockchain
    ens,          \* this.ens is defined
    zns,          \* this.zns is defined
    cns,          \* this.cns is defined
    api,          \* this.api is defined
    accepts,      \* per backend, the suffixes its isSupportedDomain accepts
    pending,      \* calls suspended at their await
    last          \* the call the latest step settled, NoCall if it settled none

vars == <<arg, constructed, blockchain, ens, zns, cns, api, accepts, pending, last>>

\* Calls that may be suspended at the same time.
MaxPending == 1

----------------------------------------------------------------------------
(* JavaScript values *)

Null == [type |-> "null"]
Undefined == [type |-> "undefined"]
Str(s) == [type |-> "string", v |-> s]
Bool(b) == [type |-> "boolean", b |-> b]

\* ToBoolean of the values that occur.
Falsy(x) ==
    \/ x.type \in {"null", "undefined"}
    \/ x.type = "string" /\ x.v = ""
    \/ x.type = "boolean" /\ ~x.b

\* a || b
Or(a, b) == IF Falsy(a) THEN b ELSE a

\* a && b
And(a, b) == IF Falsy(a) THEN a ELSE b

\* !!a
DoubleBang(a) == Bool(~Falsy(a))

\* How a call ends: a synchronous function returns or throws, an async one
\* gives a promise that is fulfilled or rejected.
Return(v) == [kind |-> "return", val |-> v]
Throw(e) == [kind |-> "throw", val |-> e]
Fulfilled(v) == [kind |-> "fulfilled", val |-> v]
Rejected(e) == [kind |-> "rejected", val |-> e]
NoResp == [kind |-> "none", val |-> Undefined]

Failed(o) == o.kind \in {"throw", "rejected"}

----------------------------------------------------------------------------
(* Errors *)

ResolutionError(code) == [type |-> "error", class |-> "ResolutionError", code |-> code]

\* The runtime's error for a property read on undefined.
TypeError == [type |-> "error", class |-> "TypeError", code |-> "-"]

\* A transport failure inside a backend.
FetchError == [type |-> "error", class |-> "FetchError", code |-> "-"]

IsResolutionError(e) == e.type = "error" /\ e.class = "ResolutionError"

\* The codes a backend raises.
BackendCodes == {"UnregisteredDomain", "RecordNotFound"}

BackendErrors == {ResolutionError(c) : c \in BackendCodes} \cup {FetchError}

----------------------------------------------------------------------------
(* Domains, tickers, backends *)

\* A domain is the sequence of its labels.
Domains ==
    { <<"domain", "eth">>, <<"domain", "luxe">>, <<"domain", "xyz">>,
      <<"brad", "zil">>, <<"domain", "crypto">>, <<"bogdangusiev", "qq">> }

Suffix(d) == d[Len(d)]

NoDomain == <<>>
Tickers == {"ZIL"}
NoTicker == "-"

Backends == {"ens", "zns", "cns", "api"}
NoMethod == "undefined"

\* The suffixes each backend is documented to accept.
DocumentedSuffixes ==
    [b \in Backends |->
        CASE b = "ens" -> {"eth", "luxe", "xyz"}
          [] b = "zns" -> {"zil"}
          [] b = "cns" -> {"crypto"}
          [] b = "api" -> {"eth", "luxe", "xyz", "zil", "crypto"}]

\* Backends whose accepted suffixes overlap: ENS and CNS take .zil as well.
OverlappingSuffixes ==
    [b \in Backends |->
        IF b \in {"ens", "cns"} THEN DocumentedSuffixes[b] \cup {"zil"}
        ELSE DocumentedSuffixes[b]]

BackendProfiles == {DocumentedSuffixes, OverlappingSuffixes}

NamingService_isSupportedDomain(b, d) == Suffix(d) \in accepts[b]

ProtocolOfSuffix(s) ==
    CASE s \in {"eth", "luxe", "xyz"} -> "ENS"
      [] s = "zil" -> "ZNS"
      [] s = "crypto" -> "CNS"
      [] OTHER -> "?"

NamingService_serviceName(b, d) ==
    CASE b = "ens" -> "ENS"
      [] b = "zns" -> "ZNS"
      [] b = "cns" -> "CNS"
      [] b = "api" -> ProtocolOfSuffix(Suffix(d))

\* The hash is that of the protocol that serves the domain.
NamingService_namehash(b, d) == <<"namehash", NamingService_serviceName(b, d), d>>

\* The exported constant returned for an unclaimed domain.
UnclaimedDomainResponse == [type |-> "object", addresses |-> {}, owner |-> Null]

\* A backend's answer for a claimed domain.
ClaimedResponse == [type |-> "object", addresses |-> {"ZIL"}, owner |-> Str("0xowner")]

----------------------------------------------------------------------------
(* Construction *)

FieldValues == {"absent", "true", "false", "pair"}

\* new Resolution(), ({blockchain: true}), ({blockchain: false}),
\* ({blockchain: {ens, zns, cns}})
Configs ==
    [kind : {"omitted", "true", "false"}, ens : {"absent"}, zns : {"absent"}, cns : {"absent"}]
    \cup [kind : {"object"}, ens : FieldValues, zns : FieldValues, cns : FieldValues]

NoArg == [kind |-> "consumed", ens |-> "absent", zns |-> "absent", cns |-> "absent"]

\* Variant without the default: an absent field leaves the protocol off.
EnabledFieldNoDefault(v) == v \in {"true", "pair"}

\* if (blockchain.x === undefined) blockchain.x = true; then if (blockchain.x)
EnabledField(v) ==
    LET w == IF v = "absent" THEN "true" ELSE v
    IN  w \in {"true", "pair"}

\* The fields the constructor leaves for its argument.
Construct(cfg) ==
    LET b == IF cfg.kind = "omitted" THEN "true" ELSE cfg.kind
        o == IF b = "true"
             THEN [ens |-> "absent", zns |-> "absent", cns |-> "absent"]
             ELSE [ens |-> cfg.ens, zns |-> cfg.zns, cns |-> cfg.cns]
    IN  IF b # "false"
        THEN [blockchain |-> TRUE,
              ens |-> EnabledField(o.ens),
              zns |-> EnabledField(o.zns),
              cns |-> EnabledField(o.cns),
              api |-> FALSE]
        ELSE [blockchain |-> FALSE, ens |-> FALSE, zns |-> FALSE, cns |-> FALSE,
              api |-> TRUE]

constructor ==
    /\ ~constructed
    /\ LET f == Construct(arg)
       IN  /\ blockchain' = f.blockchain
           /\ ens' = f.ens
           /\ zns' = f.zns
           /\ cns' = f.cns
           /\ api' = f.api
    /\ constructed' = TRUE
    /\ arg' = NoArg
    /\ UNCHANGED <<accepts, pending, last>>

\* Variant in which an operation drops the ENS backend.
FieldsReassigned ==
    /\ ens' = FALSE
    /\ UNCHANGED <<arg, constructed, blockchain, zns, cns, api, accepts>>

\* The fields are readonly: no operation assigns them.
ReadonlyFields == UNCHANGED <<arg, constructed, blockchain, ens, zns, cns, api, accepts>>

----------------------------------------------------------------------------
(* Backend selection *)

\* Variant that never consults the proxy.
MethodsDirectOnly ==
    << IF ens THEN "ens" ELSE NoMethod,
       IF zns THEN "zns" ELSE NoMethod,
       IF cns THEN "cns" ELSE NoMethod >>

\* [this.ens, this.zns, this.cns] or [this.api]; an undefined field is an
\* undefined element.
Methods ==
    IF blockchain
    THEN << IF ens THEN "ens" ELSE NoMethod,
            IF zns THEN "zns" ELSE NoMethod,
            IF cns THEN "cns" ELSE NoMethod >>
    ELSE << IF api THEN "api" ELSE NoMethod >>

\* Variant that keeps the last element the predicate accepts.
getNamingMethodLast(d) ==
    LET ms == Methods
        hit == {i \in 1..Len(ms) :
                    ms[i] # NoMethod /\ NamingService_isSupportedDomain(ms[i], d)}
    IN  IF hit = {} THEN NoMethod
        ELSE ms[CHOOSE i \in hit : \A j \in hit : i >= j]

\* Array.prototype.find: the first element the predicate accepts.
getNamingMethod(d) ==
    LET ms == Methods
        hit == {i \in 1..Len(ms) :
                    ms[i] # NoMethod /\ NamingService_isSupportedDomain(ms[i], d)}
    IN  IF hit = {} THEN NoMethod
        ELSE ms[CHOOSE i \in hit : \A j \in hit : i <= j]

\* Variant that throws with another code of the taxonomy.
getNamingMethodOrThrowWrongCode(d) ==
    LET method == getNamingMethod(d)
    IN  IF method = NoMethod
        THEN Throw(ResolutionError("UnregisteredDomain"))
        ELSE Return(method)

getNamingMethodOrThrow(d) ==
    LET method == getNamingMethod(d)
    IN  IF method = NoMethod
        THEN Throw(ResolutionError("UnsupportedDomain"))
        ELSE Return(method)

----------------------------------------------------------------------------
(* Calls *)

Call(op, d, t, m, bop) ==
    [op |-> op, domain |-> d, ticker |-> t, method |-> m, bop |-> bop]

Settled(op, d, t, m, bop, resp, outcome) ==
    [op |-> op, domain |-> d, ticker |-> t, method |-> m, bop |-> bop,
     resp |-> resp, outcome |-> outcome]

NoCall == Settled("none", NoDomain, NoTicker, NoMethod, "none", NoResp, NoResp)

\* The call is suspended at its await.
Suspend(c) ==
    /\ Cardinality(pending) < MaxPending
    /\ pending' = pending \cup {c}
    /\ last' = NoCall

\* The call settles without having been suspended.
SettleNow(s) ==
    /\ last' = s
    /\ UNCHANGED pending

\* The suspended call c settles.
Resume(c, resp, outcome) ==
    /\ c \in pending
    /\ pending' = pending \ {c}
    /\ last' = Settled(c.op, c.domain, c.ticker, c.method, c.bop, resp, outcome)

Init ==
    /\ arg \in Configs
    /\ constructed = FALSE
    /\ blockchain = FALSE
    /\ ens = FALSE
    /\ zns = FALSE
    /\ cns = FALSE
    /\ api = FALSE
    /\ accepts \in BackendProfiles
    /\ pending = {}
    /\ last = NoCall

----------------------------------------------------------------------------
(* What a backend may answer *)

ResolveResponses ==
    {Fulfilled(ClaimedResponse), Fulfilled(Null), Fulfilled(Undefined)} \cup {Rejected(e) : e \in BackendErrors}

AddressResponses ==
    {Fulfilled(Str("0xaddress"))} \cup {Rejected(e) : e \in BackendErrors}

RecordResponses ==
    {Fulfilled(Str("value"))} \cup {Rejected(e) : e \in BackendErrors}

OwnerResponses ==
    {Fulfilled(Str("0xowner")), Fulfilled(Null), Fulfilled(Str(""))}
    \cup {Rejected(e) : e \in BackendErrors}

ReverseResponses ==
    {Fulfilled(Str("domain.eth"))} \cup {Rejected(e) : e \in BackendErrors}

----------------------------------------------------------------------------
(* What each operation makes of the backend's answer *)

\* Variant that returns the backend's result as it is.
resolveResultRaw(resp) == resp

\* return result || UnclaimedDomainResponse
resolveResult(resp) ==
    IF resp.kind = "rejected" THEN resp
    ELSE Fulfilled(Or(resp.val, UnclaimedDomainResponse))

\* return await method.address(domain, currencyTicker)
addressOrThrowResult(resp) == resp

\* Variant whose catch block swallows every error.
addressCatchAll(o) == IF o.kind = "rejected" THEN Fulfilled(Null) ELSE o

\* catch (error) { if (error instanceof ResolutionError) return null; else throw error }
addressCatch(o) ==
    IF o.kind = "rejected" /\ IsResolutionError(o.val) THEN Fulfilled(Null)
    ELSE o

\* return await ....record(domain, key)
recordResult(resp) == resp

\* return (await method.owner(domain)) || null
ownerResult(resp) ==
    IF resp.kind = "rejected" THEN resp
    ELSE Fulfilled(Or(resp.val, Null))

\* return await this.ens.reverse(address, currencyTicker)
reverseResult(resp) == resp

\* A backend instance as a value: an object, or undefined when none was found.
MethodValue(m) == IF m = NoMethod THEN Undefined ELSE [type |-> "object", ref |-> m]

\* return !!this.getNamingMethod(domain)
isSupportedDomainResult(d) == DoubleBang(MethodValue(getNamingMethod(d)))

\* Variant that does not ask the backend for its network.
isSupportedDomainInNetworkNoNetwork(d, net) == DoubleBang(MethodValue(getNamingMethod(d)))

\* return method && method.isSupportedNetwork()
isSupportedDomainInNetworkResult(d, net) ==
    And(MethodValue(getNamingMethod(d)), Bool(net))

\* An async function that throws before its first await gives a rejected promise.
AsAsync(o) == IF o.kind = "throw" THEN Rejected(o.val) ELSE o

----------------------------------------------------------------------------
(* The public operations *)

\* An async operation that selects with getNamingMethodOrThrow and awaits one
\* operation of the selected backend.
Routed(op, d, t, bop) ==
    LET sel == getNamingMethodOrThrow(d)
    IN  IF sel.kind = "throw"
        THEN SettleNow(Settled(op, d, t, NoMethod, "none", NoResp, AsAsync(sel)))
        ELSE Suspend(Call(op, d, t, sel.val, bop))

resolve(d) ==
    /\ constructed
    /\ Routed("resolve", d, NoTicker, "resolve")
    /\ ReadonlyFields

resolveReturn(c, resp) ==
    /\ c.op = "resolve"
    /\ Resume(c, resp, resolveResult(resp))
    /\ ReadonlyFields

addressOrThrow(d, t) ==
    /\ constructed
    /\ Routed("addressOrThrow", d, t, "address")
    /\ ReadonlyFields

addressOrThrowReturn(c, resp) ==
    /\ c.op = "addressOrThrow"
    /\ Resume(c, resp, addressOrThrowResult(resp))
    /\ ReadonlyFields

\* address awaits addressOrThrow inside its try block.
address(d, t) ==
    /\ constructed
    /\ LET sel == getNamingMethodOrThrow(d)
       IN  IF sel.kind = "throw"
           THEN SettleNow(Settled("address", d, t, NoMethod, "none", NoResp,
                                  addressCatch(AsAsync(sel))))
           ELSE Suspend(Call("address", d, t, sel.val, "address"))
    /\ ReadonlyFields

addressReturn(c, resp) ==
    /\ c.op = "address"
    /\ Resume(c, resp, addressCatch(addressOrThrowResult(resp)))
    /\ ReadonlyFields

ipfsHash(d) ==
    /\ constructed
    /\ Routed("ipfsHash", d, NoTicker, "record(ipfs.html.value)")
    /\ ReadonlyFields

ipfsRedirect(d) ==
    /\ constructed
    /\ Routed("ipfsRedirect", d, NoTicker, "record(ipfs.redirect_domain.value)")
    /\ ReadonlyFields

email(d) ==
    /\ constructed
    /\ Routed("email", d, NoTicker, "record(whois.email.value)")
    /\ ReadonlyFields

recordReturn(c, resp) ==
    /\ c.op \in {"ipfsHash", "ipfsRedirect", "email"}
    /\ Resume(c, resp, recordResult(resp))
    /\ ReadonlyFields

\* owner selects with getNamingMethod and reads .owner of what it got.
owner(d) ==
    /\ constructed
    /\ LET method == getNamingMethod(d)
       IN  IF method = NoMethod
           THEN SettleNow(Settled("owner", d, NoTicker, NoMethod, "none", NoResp,
                                  Rejected(TypeError)))
           ELSE Suspend(Call("owner", d, NoTicker, method, "owner"))
    /\ ReadonlyFields

ownerReturn(c, resp) ==
    /\ c.op = "owner"
    /\ Resume(c, resp, ownerResult(resp))
    /\ ReadonlyFields

\* reverse reads .reverse of this.ens without selecting.
reverse(t) ==
    /\ constructed
    /\ IF ~ens
       THEN SettleNow(Settled("reverse", NoDomain, t, NoMethod, "none", NoResp,
                              Rejected(TypeError)))
       ELSE Suspend(Call("reverse", NoDomain, t, "ens", "reverse"))
    /\ ReadonlyFields

reverseReturn(c, resp) ==
    /\ c.op = "reverse"
    /\ Resume(c, resp, reverseResult(resp))
    /\ ReadonlyFields

namehash(d) ==
    /\ constructed
    /\ LET sel == getNamingMethodOrThrow(d)
       IN  IF sel.kind = "throw"
           THEN SettleNow(Settled("namehash", d, NoTicker, NoMethod, "none", NoResp, sel))
           ELSE LET h == Return(Str(NamingService_namehash(sel.val, d)))
                IN  SettleNow(Settled("namehash", d, NoTicker, sel.val, "namehash", h, h))
    /\ ReadonlyFields

serviceName(d) ==
    /\ constructed
    /\ LET sel == getNamingMethodOrThrow(d)
       IN  IF sel.kind = "throw"
           THEN SettleNow(Settled("serviceName", d, NoTicker, NoMethod, "none", NoResp, sel))
           ELSE LET n == Return(Str(NamingService_serviceName(sel.val, d)))
                IN  SettleNow(Settled("serviceName", d, NoTicker, sel.val, "serviceName", n, n))
    /\ ReadonlyFields

isSupportedDomain(d) ==
    /\ constructed
    /\ SettleNow(Settled("isSupportedDomain", d, NoTicker, getNamingMethod(d), "none",
                         NoResp, Return(isSupportedDomainResult(d))))
    /\ ReadonlyFields

\* net is what the selected backend's isSupportedNetwork() answers.
isSupportedDomainInNetwork(d, net) ==
    /\ constructed
    /\ LET method == getNamingMethod(d)
       IN  SettleNow(Settled("isSupportedDomainInNetwork", d, NoTicker, method,
                             IF method = NoMethod THEN "none" ELSE "isSupportedNetwork",
                             IF method = NoMethod THEN NoResp ELSE Return(Bool(net)),
                             Return(isSupportedDomainInNetworkResult(d, net))))
    /\ ReadonlyFields

----------------------------------------------------------------------------

Next ==
    \/ constructor
    \/ \E d \in Domains : resolve(d)
    \/ \E c \in pending, r \in ResolveResponses : resolveReturn(c, r)
    \/ \E d \in Domains, t \in Tickers : address(d, t)
    \/ \E c \in pending, r \in AddressResponses : addressReturn(c, r)
    \/ \E d \in Domains, t \in Tickers : addressOrThrow(d, t)
    \/ \E c \in pending, r \in AddressResponses : addressOrThrowReturn(c, r)
    \/ \E d \in Domains : ipfsHash(d)
    \/ \E d \in Domains : ipfsRedirect(d)
    \/ \E d \in Domains : email(d)
    \/ \E c \in pending, r \in RecordResponses : recordReturn(c, r)
    \/ \E d \in Domains : owner(d)
    \/ \E c \in pending, r \in OwnerResponses : ownerReturn(c, r)
    \/ \E t \in Tickers : reverse(t)
    \/ \E c \in pending, r \in ReverseResponses : reverseReturn(c, r)
    \/ \E d \in Domains : namehash(d)
    \/ \E d \in Domains : serviceName(d)
    \/ \E d \in Domains : isSupportedDomain(d)
    \/ \E d \in Domains, net \in BOOLEAN : isSupportedDomainInNetwork(d, net)

Spec == Init /\ [][Next]_vars

----------------------------------------------------------------------------
(* Vocabulary of the properties *)

\* The backends the dispatcher holds.
Configured ==
    (IF ens THEN {"ens"} ELSE {}) \cup (IF zns THEN {"zns"} ELSE {})
    \cup (IF cns THEN {"cns"} ELSE {}) \cup (IF api THEN {"api"} ELSE {})

\* The configured backends that accept the domain.
Matching(d) == {b \in Configured : Suffix(d) \in accepts[b]}

\* The fixed order ENS, ZNS, CNS; the proxy stands alone.
Rank(b) == CASE b = "ens" -> 1 [] b = "zns" -> 2 [] b = "cns" -> 3 [] b = "api" -> 1

Earliest(S) == CHOOSE b \in S : \A c \in S : Rank(b) <= Rank(c)

UnsupportedDomain == ResolutionError("UnsupportedDomain")

AsyncThrowingOps == {"resolve", "addressOrThrow", "ipfsHash", "ipfsRedirect", "email"}
SyncThrowingOps == {"namehash", "serviceName"}

\* Every call the state shows: the suspended ones and the one just settled.
Shown == pending \cup (IF last.op = "none" THEN {} ELSE {last})

\* What addressOrThrow gives for the domain of the settled call and the
\* backend's answer to it.
AddressOrThrowOf(s) ==
    IF Matching(s.domain) = {} THEN Rejected(UnsupportedDomain) ELSE s.resp

----------------------------------------------------------------------------
(* Properties *)

\* C1: address never gives its caller a ResolutionError: it is fulfilled with
\* null exactly where addressOrThrow is rejected with a ResolutionError of any
\* code (UnsupportedDomain included), is fulfilled with the same string where
\* addressOrThrow is, and is rejected with the same error where addressOrThrow
\* is rejected with an error that is no ResolutionError.
C1_AddressDowngradesResolutionErrors ==
    /\ last.op = "addressOrThrow" => last.outcome = AddressOrThrowOf(last)
    /\ last.op = "address" =>
         LET o == AddressOrThrowOf(last)
         IN  /\ last.outcome.kind \in {"fulfilled", "rejected"}
             /\ ~(last.outcome.kind = "rejected" /\ IsResolutionError(last.outcome.val))
             /\ (last.outcome = Fulfilled(Null))
                    <=> (o.kind = "rejected" /\ IsResolutionError(o.val))
             /\ o.kind = "fulfilled" => last.outcome = o
             /\ (o.kind = "rejected" /\ ~IsResolutionError(o.val)) => last.outcome = o

C1_Witness ==
    /\ last.op = "address"
    /\ last.resp = Rejected(ResolutionError("RecordNotFound"))
    /\ last.outcome = Fulfilled(Null)

\* C2: for a domain no configured backend accepts, resolve, addressOrThrow,
\* ipfsHash, ipfsRedirect and email are rejected with UnsupportedDomain,
\* namehash and serviceName throw it synchronously, none of them invokes a
\* backend operation, and isSupportedDomain returns false.
C2_UnsupportedDomainFails ==
    /\ \A c \in pending :
          c.op \in AsyncThrowingOps \cup SyncThrowingOps => Matching(c.domain) # {}
    /\ (last.op \in AsyncThrowingOps /\ Matching(last.domain) = {}) =>
          /\ last.outcome = Rejected(UnsupportedDomain)
          /\ last.bop = "none"
          /\ last.resp = NoResp
    /\ (last.op \in SyncThrowingOps /\ Matching(last.domain) = {}) =>
          /\ last.outcome = Throw(UnsupportedDomain)
          /\ last.bop = "none"
          /\ last.resp = NoResp
    /\ (last.op = "isSupportedDomain" /\ Matching(last.domain) = {}) =>
          /\ last.outcome = Return(Bool(FALSE))
          /\ last.bop = "none"

\* A .zil domain on a dispatcher built without ZNS.
C2_Witness ==
    /\ last.op = "ipfsHash"
    /\ Suffix(last.domain) = "zil"
    /\ Matching(last.domain) = {}
    /\ last.outcome = Rejected(UnsupportedDomain)

\* C3: owner is fulfilled with null when no configured backend accepts the
\* domain; when one does it gives that backend's owner result, or null if that
\* result is falsy.
C3_OwnerNullWhenUnmatched ==
    last.op = "owner" =>
        IF Matching(last.domain) = {}
        THEN last.outcome = Fulfilled(Null)
        ELSE /\ last.method = Earliest(Matching(last.domain))
             /\ last.resp.kind = "rejected" => last.outcome = last.resp
             /\ last.resp.kind = "fulfilled" =>
                    last.outcome = Fulfilled(IF Falsy(last.resp.val) THEN Null
                                             ELSE last.resp.val)

\* C4: for a domain some configured backend accepts, resolve gives the
\* selected backend's result when it is not null, and the unclaimed-domain
\* sentinel (no addresses, owner null) when the backend gives null or nothing;
\* an unclaimed domain is never an error.
C4_ResolveUnclaimedSentinel ==
    (last.op = "resolve" /\ Matching(last.domain) # {}) =>
        /\ last.method = Earliest(Matching(last.domain))
        /\ last.resp.kind = "fulfilled" =>
              /\ last.outcome.kind = "fulfilled"
              /\ last.resp.val.type = "object" => last.outcome = last.resp
              /\ last.resp.val.type \in {"null", "undefined"} =>
                    /\ last.outcome.val.type = "object"
                    /\ last.outcome.val.addresses = {}
                    /\ last.outcome.val.owner = Null

C4_Witness ==
    /\ last.op = "resolve"
    /\ last.resp = Fulfilled(Null)
    /\ last.outcome = Fulfilled(UnclaimedDomainResponse)

\* C5: with the documented backends, serviceName of a domain whose suffix is
\* eth, luxe, xyz, zil or crypto returns ENS, ENS, ENS, ZNS, CNS, on the
\* dispatcher built with blockchain = true and on the one built with
\* blockchain = false alike.
C5_ServiceNameSameInBothModes ==
    ( /\ last.op = "serviceName"
      /\ accepts = DocumentedSuffixes
      /\ \/ blockchain /\ ens /\ zns /\ cns
         \/ ~blockchain
      /\ Suffix(last.domain) \in {"eth", "luxe", "xyz", "zil", "crypto"} ) =>
        last.outcome =
            Return(Str(CASE Suffix(last.domain) \in {"eth", "luxe", "xyz"} -> "ENS"
                         [] Suffix(last.domain) = "zil" -> "ZNS"
                         [] Suffix(last.domain) = "crypto" -> "CNS"))

\* The proxy names the protocol of a .crypto domain.
C5_Witness ==
    /\ last.op = "serviceName"
    /\ accepts = DocumentedSuffixes
    /\ ~blockchain
    /\ Suffix(last.domain) = "crypto"
    /\ last.outcome = Return(Str("CNS"))

\* C6: isSupportedDomainInNetwork never fails; it returns true iff some
\* configured backend accepts the domain and the earliest such backend's
\* isSupportedNetwork() is true; it returns a falsy value when none accepts,
\* so a truthy result implies that isSupportedDomain is true.
C6_SupportedInNetwork ==
    last.op = "isSupportedDomainInNetwork" =>
        /\ last.outcome.kind = "return"
        /\ (last.outcome.val = Bool(TRUE)) <=>
              /\ Matching(last.domain) # {}
              /\ last.method = Earliest(Matching(last.domain))
              /\ last.bop = "isSupportedNetwork"
              /\ last.resp = Return(Bool(TRUE))
        /\ Matching(last.domain) = {} => Falsy(last.outcome.val)
        /\ ~Falsy(last.outcome.val) => isSupportedDomainResult(last.domain) = Bool(TRUE)

\* A backend accepts the domain and its network is not supported.
C6_Witness ==
    /\ last.op = "isSupportedDomainInNetwork"
    /\ Matching(last.domain) # {}
    /\ last.resp = Return(Bool(FALSE))
    /\ last.outcome = Return(Bool(FALSE))

\* C7: the constructor enables exactly ENS, ZNS and CNS and no proxy for
\* blockchain = true or omitted, exactly the proxy for blockchain = false, and
\* for a per-protocol object enables a protocol iff its field is absent, true
\* or a {url, network} pair, disables it iff the field is false, and creates
\* no proxy.
C7_ConstructionMapsConfiguration ==
    [][ (~constructed /\ constructed') =>
          /\ arg.kind \in {"true", "omitted"} =>
                blockchain' /\ ens' /\ zns' /\ cns' /\ ~api'
          /\ arg.kind = "false" =>
                ~blockchain' /\ ~ens' /\ ~zns' /\ ~cns' /\ api'
          /\ arg.kind = "object" =>
                /\ blockchain' /\ ~api'
                /\ ens' <=> arg.ens \in {"absent", "true", "pair"}
                /\ ~ens' <=> arg.ens = "false"
                /\ zns' <=> arg.zns \in {"absent", "true", "pair"}
                /\ ~zns' <=> arg.zns = "false"
                /\ cns' <=> arg.cns \in {"absent", "true", "pair"}
                /\ ~cns' <=> arg.cns = "false" ]_vars

\* Built from an object that disables ENS alone.
C7_Witness ==
    constructed /\ blockchain /\ ~ens /\ zns /\ cns /\ ~api

\* C8: every call that selects a backend gets the earliest configured backend,
\* in the order ENS, ZNS, CNS (the proxy alone in proxy mode), that accepts the
\* domain, and none when none accepts; the backend operation is invoked on that
\* backend; two calls on the same domain select the same backend.
C8_FirstMatchingBackend ==
    /\ \A c \in Shown :
          c.op # "reverse" =>
            /\ c.method = IF Matching(c.domain) = {} THEN NoMethod
                          ELSE Earliest(Matching(c.domain))
            /\ c.bop # "none" => c.method \in Configured
            /\ ~blockchain => c.method \in {"api", NoMethod}
            /\ blockchain => c.method # "api"
    /\ \A c1 \in Shown, c2 \in Shown :
          (c1.op # "reverse" /\ c2.op # "reverse" /\ c1.domain = c2.domain) =>
            c1.method = c2.method

\* ENS and ZNS both accept the domain and ENS is the one invoked.
C8_Witness ==
    /\ last.op = "resolve"
    /\ {"ens", "zns"} \subseteq Matching(last.domain)
    /\ last.method = "ens"
    /\ last.bop = "resolve"

\* C9: in resolve, addressOrThrow, owner, ipfsHash, ipfsRedirect, email,
\* namehash and serviceName an error of the backend reaches the caller
\* unchanged, and an error the backend did not raise is UnsupportedDomain.
C9_ErrorsPropagateUnchanged ==
    last.op \in AsyncThrowingOps \cup SyncThrowingOps \cup {"owner"} =>
        /\ Failed(last.resp) => last.outcome = last.resp
        /\ (Failed(last.outcome) /\ ~Failed(last.resp)) =>
              last.outcome.val = UnsupportedDomain

====
